---- MODULE Spec2Model ----
(***************************************************************************)
(* Zipf's-law corpus analyser (zipf_corpus.py, zipf.py).                   *)
(*                                                                         *)
(* Characters are Unicode code points; a string is a sequence of code      *)
(* points.  The modelled code-point domain is ASCII and the basic Cyrillic *)
(* block U+0400..U+045F.  Python floats are modelled as exact rationals    *)
(* <<numerator, denominator>> in lowest terms (rounding is not modelled).  *)
(***************************************************************************)
EXTENDS Integers, Sequences, FiniteSets, TLC

(* ------------------------------ bounds -------------------------------- *)

\* longest character-level text given to get_words
MaxTextLen == 4
\* most words in a generated word-level text given to the pipeline
MaxWords == 5
\* largest small top_n cutoff tried (the cutoff 10 is tried besides)
MaxTopN == 3
\* most files in a corpus folder
MaxFiles == 3
\* the candidate constants k / GridSteps, k = 0..GridSteps, of the least-squares comparison
GridSteps == 4

(* --------------------------- stop-word tables -------------------------- *)

BASE_STOPWORDS ==
    { <<1080>> (* и *), <<1074>> (* в *), <<1074,1086>> (* во *), <<1085,1072>> (* на *),
      <<1085,1077>> (* не *), <<1095,1090,1086>> (* что *), <<1086,1085>> (* он *), <<1086,1085,1072>> (* она *),
      <<1086,1085,1086>> (* оно *), <<1086,1085,1080>> (* они *), <<1103>> (* я *), <<1090,1099>> (* ты *),
      <<1074,1099>> (* вы *), <<1084,1099>> (* мы *), <<1072>> (* а *), <<1085,1086>> (* но *),
      <<1082,1072,1082>> (* как *), <<1090,1072,1082>> (* так *), <<1078,1077>> (* же *), <<1089>> (* с *),
      <<1089,1086>> (* со *), <<1082>> (* к *), <<1082,1086>> (* ко *), <<1091>> (* у *),
      <<1086,1090>> (* от *), <<1076,1086>> (* до *), <<1087,1086>> (* по *), <<1080,1079>> (* из *),
      <<1079,1072>> (* за *), <<1085,1072,1076>> (* над *), <<1087,1086,1076>> (* под *), <<1101,1090,1086>> (* это *),
      <<1090,1086,1075,1076,1072>> (* тогда *), <<1090,1072,1084>> (* там *), <<1090,1091,1090>> (* тут *), <<1079,1076,1077,1089,1100>> (* здесь *),
      <<1077,1075,1086>> (* его *), <<1077,1077>> (* ее *), <<1080,1093>> (* их *), <<1077,1084,1091>> (* ему *),
      <<1077,1081>> (* ей *), <<1080,1084>> (* им *), <<1073,1099>> (* бы *), <<1083,1080>> (* ли *),
      <<1090,1086>> (* то *), <<1074,1086,1090>> (* вот *), <<1091,1078>> (* уж *), <<1085,1091>> (* ну *),
      <<1076,1083,1103>> (* для *), <<1087,1088,1080>> (* при *), <<1073,1077,1079>> (* без *), <<1086,1073>> (* об *),
      <<1087,1088,1086>> (* про *), <<1085,1072,1076,1086>> (* надо *), <<1076,1072>> (* да *), <<1080,1083,1080>> (* или *),
      <<1077,1089,1083,1080>> (* если *), <<1095,1090,1086,1073,1099>> (* чтобы *), <<1086>> (* о *), <<1073,1099,1083>> (* был *),
      <<1073,1099,1083,1086>> (* было *), <<1073,1099,1083,1080>> (* были *), <<1077,1097,1105>> (* ещё *), <<1077,1097,1077>> (* еще *),
      <<1091,1078,1077>> (* уже *), <<1090,1086,1083,1100,1082,1086>> (* только *), <<1074,1089,1105>> (* всё *), <<1074,1089,1077>> (* все *),
      <<1088,1080,1089>> (* рис *), <<105,110>> (* in *), <<111,110>> (* on *), <<116,111>> (* to *),
      <<97,110,100>> (* and *), <<116,104,101>> (* the *), <<105,115>> (* is *), <<111,102>> (* of *),
      <<102,111,114>> (* for *), <<102,114,111,109>> (* from *), <<98,121>> (* by *) }

PERSONAL_STOP(filename) ==
    CASE filename = "arina.txt" ->  \* lines 36-38
           { <<105>> (* i *), <<106>> (* j *), <<107>> (* k *), <<100,111,117,98,108,101>> (* double *),
             <<102,108,111,97,116>> (* float *) }
      [] filename = "Fedorov_MV.txt" ->  \* lines 41-46
           { <<1084>> (* м *), <<1085>> (* н *), <<1092>> (* ф *), <<1082,1075>> (* кг *),
             <<1084,1084>> (* мм *), <<1089,1084>> (* см *), <<1084,1087,1072>> (* мпа *), <<1084,50>> (* м2 *),
             <<1084,51>> (* м3 *), <<1088,1072,1089,1095>> (* расч *), <<1092,1086,1088,1084>> (* форм *), <<1090,1072,1073,1083>> (* табл *),
             <<1088,1080,1089>> (* рис *) }
      [] filename = "kolesnikova_ds.txt" ->  \* lines 49-52
           { <<115,101,108,102>> (* self *), <<115,99,111,114,101>> (* score *), <<122>> (* z *), <<120>> (* x *),
             <<121>> (* y *), <<1088,1080,1089,1091,1085,1086,1082>> (* рисунок *), <<1090,1072,1073,1083>> (* табл *), <<112,110,103>> (* png *),
             <<106,112,103>> (* jpg *), <<1082,1090,1088>> (* ктр *) }
      [] filename = "kucheryavaya_mi.txt" ->  \* lines 55-58
           { <<102,108,111,97,116>> (* float *), <<118,101,99,51>> (* vec3 *), <<103,108>> (* gl *), <<115,104,97,100,101,114>> (* shader *),
             <<102>> (* f *), <<116>> (* t *), <<105>> (* i *), <<101>> (* e *) }
      [] filename = "kuznetsova_av.txt" ->  \* lines 61-63
           { <<115,101,114,118,105,99,101>> (* service *), <<100,101,115,107>> (* desk *), <<114,112,97>> (* rpa *), <<110,97,117,109,101,110>> (* naumen *),
             <<105,116,115,109>> (* itsm *) }
      [] filename = "Miroshnichenko_DA.txt" ->  \* lines 66-71
           { <<1073,1099,1074,1072,1083,1086>> (* бывало *), <<1090,1086,1083,1100,1082,1086>> (* только *), <<1077,1097,1105>> (* ещё *), <<1077,1097,1077>> (* еще *),
             <<1073,1099,1083,1086>> (* было *), <<1073,1099,1083>> (* был *), <<1073,1099,1083,1072>> (* была *), <<1089,1090,1077,1087,1072,1085>> (* степан *),
             <<1090,1088,1086,1092,1080,1084,1086,1074,1080,1095>> (* трофимович *) }
      [] filename = "ozhegova_ea_VKR.txt" ->  \* lines 74-81
           { <<100,111>> (* do *), <<101,110,100,100,111>> (* enddo *), <<105,110,116,101,103,101,114>> (* integer *), <<115,117,98,114,111,117,116,105,110,101>> (* subroutine *),
             <<105,110,116,101,110,116>> (* intent *), <<114,101,97,108>> (* real *), <<100,111,117,98,108,101>> (* double *), <<109,111,100,117,108,101>> (* module *),
             <<99,111,110,116,97,105,110,115>> (* contains *), <<117,115,101>> (* use *), <<101,110,100,105,102>> (* endif *), <<105,102>> (* if *),
             <<116,104,101,110>> (* then *), <<101,108,115,101>> (* else *), <<108,49>> (* l1 *), <<108,50>> (* l2 *),
             <<120,49>> (* x1 *), <<105,110,122>> (* inz *), <<116,109,112>> (* tmp *), <<97,114,114>> (* arr *) }
      [] filename = "Patalakha_ad_VKR.txt" ->  \* lines 84-86
           { <<1082,1074>> (* кв *), <<1074,1082,1088>> (* вкр *), <<1075,1083,1072,1074,1072>> (* глава *), <<1090,1072,1073,1083>> (* табл *),
             <<1088,1080,1089>> (* рис *) }
      [] filename = "Sokolova_IP.txt" ->  \* lines 89-92
           { <<1073,1076>> (* бд *), <<115,113,108>> (* sql *), <<115,101,108,101,99,116>> (* select *), <<102,114,111,109>> (* from *),
             <<106,111,105,110>> (* join *), <<1090,1072,1073,1083>> (* табл *), <<1088,1080,1089>> (* рис *), <<106,115,111,110>> (* json *),
             <<1073,1099,1090,1100>> (* быть *), <<1084,1086,1078,1077,1090>> (* может *) }
      [] filename = "Valchuk_LV.txt" ->  \* lines 95-98
           { <<1086,1086,1086>> (* ооо *), <<1079,1072,1086>> (* зао *), <<1086,1072,1086>> (* оао *), <<1072,1075,1088,1086,1090,1086,1088,1075>> (* агроторг *),
             <<111,111,111>> (* ooo *), <<1090,1072,1073,1083>> (* табл *), <<1088,1080,1089>> (* рис *), <<1090,1072,1082,1078,1077>> (* также *) }
      [] filename = "vilydanova_la.txt" ->  \* lines 101-105
           { <<1087,1072,1086>> (* пао *), <<1086,1072,1086>> (* оао *), <<1089,1091,1088,1075,1091,1090,1085,1077,1092,1090,1077,1075,1072,1079>> (* сургутнефтегаз *), <<1088,1086,1089,1085,1077,1092,1090,1100>> (* роснефть *),
             <<1075,1072,1079,1087,1088,1086,1084>> (* газпром *), <<1083,1091,1082,1086,1081,1083>> (* лукойл *), <<1085,1077,1092,1090,1077,1075,1072,1079>> (* нефтегаз *), <<1090,1072,1073,1083>> (* табл *),
             <<1088,1080,1089>> (* рис *), <<1072,1082,1094,1080,1086,1085,1077,1088,1085,1086,1077>> (* акционерное *), <<1086,1073,1097,1077,1089,1090,1074,1086>> (* общество *) }
      [] OTHER -> {}

(* ------------------------------ characters ----------------------------- *)

\* str.lower() on one code point: A-Z, U+0410..U+042F (+32), U+0400..U+040F (+80)
Lower(c) ==
    IF (c >= 65 /\ c <= 90) \/ (c >= 1040 /\ c <= 1071) THEN c + 32
    ELSE IF c >= 1024 /\ c <= 1039 THEN c + 80
    ELSE c

\* text.lower()
lower(text) == [i \in 1..Len(text) |-> Lower(text[i])]

\* one character matched by the pattern \w under re.UNICODE:
\* a letter, a digit or the underscore
IsWordChar(c) ==
    \/ c >= 48 /\ c <= 57
    \/ c >= 65 /\ c <= 90
    \/ c = 95
    \/ c >= 97 /\ c <= 122
    \/ c >= 1024 /\ c <= 1119

\* str.isdigit()
isdigit(w) == Len(w) > 0 /\ \A i \in 1..Len(w) : w[i] >= 48 /\ w[i] <= 57

\* re.findall(r"\w+", s): the leftmost-longest non-overlapping matches
RECURSIVE Scan(_, _, _, _)
Scan(s, i, cur, acc) ==
    IF i > Len(s)
    THEN IF cur = <<>> THEN acc ELSE Append(acc, cur)
    ELSE IF IsWordChar(s[i])
         THEN Scan(s, i + 1, Append(cur, s[i]), acc)
         ELSE Scan(s, i + 1, <<>>, IF cur = <<>> THEN acc ELSE Append(acc, cur))

findall(s) == Scan(s, 1, <<>>, <<>>)

(* ------------------------------ get_words ------------------------------ *)

\* words = re.findall(r"\w+", text.lower(), flags=re.UNICODE)
Candidates(text) == findall(lower(text))

\* stop = set(BASE_STOPWORDS) | set(personal)
StopSet(filename) == BASE_STOPWORDS \cup PERSONAL_STOP(filename)

\* 'а' <= w[0] <= 'я'
StartsRussian(w) == w[1] >= 1072 /\ w[1] <= 1103

\* faulty variant of the filter: the one-character test is missing
Skipped_KeepsSingle(w, stop) ==
    \/ w \in stop
    \/ isdigit(w)
    \/ Len(w) <= 3 /\ Len(w) > 1 /\ ~StartsRussian(w)

\* the four `continue` tests of the filter loop, in order
Skipped(w, stop) ==
    \/ w \in stop
    \/ isdigit(w)
    \/ Len(w) = 1
    \/ Len(w) <= 3 /\ ~StartsRussian(w)

RECURSIVE Clean(_, _, _, _)
Clean(ws, i, stop, cleaned) ==
    IF i > Len(ws) THEN cleaned
    ELSE Clean(ws, i + 1, stop,
               IF Skipped(ws[i], stop) THEN cleaned ELSE Append(cleaned, ws[i]))

get_words(text, filename) == Clean(Candidates(text), 1, StopSet(filename), <<>>)

(* ------------------------ float arithmetic (exact) --------------------- *)

RECURSIVE Gcd(_, _)
Gcd(a, b) == IF b = 0 THEN a ELSE Gcd(b, a % b)

Abs(x) == IF x < 0 THEN -x ELSE x

Lcm(a, b) == (a \div Gcd(a, b)) * b

\* the rational n/d (d # 0) in lowest terms with a positive denominator
Rat(n, d) ==
    LET g == Gcd(Abs(n), Abs(d))
        s == IF d < 0 THEN -1 ELSE 1
    IN  <<(s * n) \div g, Abs(d) \div g>>

RAdd(x, y) ==
    LET l == Lcm(x[2], y[2])
    IN  Rat(x[1] * (l \div x[2]) + y[1] * (l \div y[2]), l)

RNeg(x) == <<-x[1], x[2]>>

RSub(x, y) == RAdd(x, RNeg(y))

RMul(x, y) ==
    LET a == Rat(x[1], y[2])
        b == Rat(y[1], x[2])
    IN  <<a[1] * b[1], a[2] * b[2]>>

\* x / y for y # 0
RDiv(x, y) == RMul(x, Rat(y[2], y[1]))

\* sum(...) of a sequence of numbers, starting from 0
RECURSIVE RSumFrom(_, _)
RSumFrom(s, i) == IF i > Len(s) THEN <<0, 1>> ELSE RAdd(s[i], RSumFrom(s, i + 1))

sum(s) == RSumFrom(s, 1)

(* -------------------------- Counter, most_common ------------------------ *)

\* Counter(words): <<word, count>> items in order of first insertion
RECURSIVE CounterFrom(_, _, _)
CounterFrom(ws, i, items) ==
    IF i > Len(ws) THEN items
    ELSE LET at == {k \in 1..Len(items) : items[k][1] = ws[i]}
         IN  IF at = {}
             THEN CounterFrom(ws, i + 1, Append(items, <<ws[i], 1>>))
             ELSE LET k == CHOOSE k \in at : TRUE
                  IN  CounterFrom(ws, i + 1,
                                  [items EXCEPT ![k] = <<ws[i], items[k][2] + 1>>])

Counter(ws) == CounterFrom(ws, 1, <<>>)

\* faulty variant of the sort: an item goes before the earlier items of equal count
InsertAt_Unstable(item, s) == Cardinality({k \in 1..Len(s) : s[k][2] > item[2]}) + 1

\* where a stable descending sort puts `item` among the already sorted `s`:
\* after every element whose count is not smaller
InsertAt(item, s) == Cardinality({k \in 1..Len(s) : s[k][2] >= item[2]}) + 1

Insert(item, s) ==
    LET p == InsertAt(item, s)
    IN  SubSeq(s, 1, p - 1) \o <<item>> \o SubSeq(s, p, Len(s))

\* sorted(items, key=itemgetter(1), reverse=True)
RECURSIVE SortFrom(_, _, _)
SortFrom(items, i, s) ==
    IF i > Len(items) THEN s ELSE SortFrom(items, i + 1, Insert(items[i], s))

most_common(items) == SortFrom(items, 1, <<>>)

\* the slice s[:k]
Slice(s, k) ==
    IF k >= 0
    THEN SubSeq(s, 1, IF k < Len(s) THEN k ELSE Len(s))
    ELSE SubSeq(s, 1, IF Len(s) + k > 0 THEN Len(s) + k ELSE 0)

(* ------------------------------ analyze_text --------------------------- *)

\* faulty variant of the cutoff: the `if top_n` guard is missing
Truncate_Unguarded(sorted_items, top_n) == Slice(sorted_items, top_n)

\* if top_n: sorted_items = sorted_items[:top_n]
Truncate(sorted_items, top_n) ==
    IF top_n # 0 THEN Slice(sorted_items, top_n) ELSE sorted_items

\* f_rel = freq / total_words
RelFreq(freq, total_words) == Rat(freq, total_words)

\* faulty variant of the product: ranks counted from 0 (enumerate without start=1)
ConstFr_ZeroBased(f_rel, rank) == RMul(f_rel, <<rank - 1, 1>>)

\* const_fr.append(f_rel * rank)
ConstFr(f_rel, rank) == RMul(f_rel, <<rank, 1>>)

\* C_mean = sum(const_fr) / len(const_fr)
CMean(const_fr) == RDiv(sum(const_fr), <<Len(const_fr), 1>>)

\* num = sum(f / r for f, r in zip(freqs_rel, ranks))
Num(freqs_rel, ranks) ==
    sum([i \in 1..Len(ranks) |-> RDiv(freqs_rel[i], <<ranks[i], 1>>)])

\* faulty variant of the denominator: 1 / r instead of 1 / r^2
Denom_Linear(ranks) == sum([i \in 1..Len(ranks) |-> Rat(1, ranks[i])])

\* denom = sum(1 / (r * r) for r in ranks)
Denom(ranks) == sum([i \in 1..Len(ranks) |-> Rat(1, ranks[i] * ranks[i])])

\* C_opt = num / denom
COpt(freqs_rel, ranks) == RDiv(Num(freqs_rel, ranks), Denom(ranks))

\* freqs_theor.append(C_opt / r)
Theor(C_opt, r) == RDiv(C_opt, <<r, 1>>)

\* mse = sum((f - t) ** 2 for f, t in zip(freqs_rel, freqs_theor)) / len(ranks)
Mse(freqs_rel, freqs_theor, ranks) ==
    RDiv(sum([i \in 1..Len(ranks) |->
                 LET d == RSub(freqs_rel[i], freqs_theor[i]) IN RMul(d, d)]),
         <<Len(ranks), 1>>)

\* the call analyze_text(words, top_n): the returned dict, or the exception it
\* raises together with the locals bound when it is raised
analyze_text(ws, top_n) ==
    LET total_words  == Len(ws)
        counter      == Counter(ws)
        sorted_items == Truncate(most_common(counter), top_n)
        n            == Len(sorted_items)
        ranks        == [r \in 1..n |-> r]
        freqs_rel    == [r \in 1..n |-> RelFreq(sorted_items[r][2], total_words)]
        const_fr     == [r \in 1..n |-> ConstFr(freqs_rel[r], r)]
    IN  IF Len(const_fr) = 0
        THEN \* sum([]) / len([]) is 0 / 0
             [raised       |-> "ZeroDivisionError",
              total_words  |-> total_words,
              unique_words |-> Len(counter),
              sorted_items |-> sorted_items]
        ELSE LET C_opt       == COpt(freqs_rel, ranks)
                 freqs_theor == [r \in 1..n |-> Theor(C_opt, ranks[r])]
             IN  [raised       |-> "none",
                  total_words  |-> total_words,
                  unique_words |-> Len(counter),
                  sorted_items |-> sorted_items,
                  ranks        |-> ranks,
                  freqs_rel    |-> freqs_rel,
                  freqs_theor  |-> freqs_theor,
                  C_mean       |-> CMean(const_fr),
                  C_opt        |-> C_opt,
                  mse          |-> Mse(freqs_rel, freqs_theor, ranks),
                  top_list     |-> Slice(sorted_items, 20)]

(* ------------------------------- the state ----------------------------- *)

VARIABLES
    pc,         \* position in the running function
    call,       \* the entry point being run
    folder,     \* file name -> file (or Absent) of the corpus folder
    file1,      \* compare_two_files: first name
    file2,      \* compare_two_files: second name
    top_n,      \* the cutoff argument
    queue,      \* analyze_corpus: paths of sorted(glob("*.txt")) still to visit
    filename,   \* name of the file being processed (path.name)
    text,       \* local `text`
    words,      \* get_words: local `words` (the regex matches)
    cleaned,    \* get_words: the returned list `cleaned`
    res,        \* local `res`: what analyze_text returned
    results,    \* analyze_corpus: the `results` dict
    cmp,        \* compare_two_files: text1/2, words1/2, res1/2 bound so far
    error,      \* exception that ended the call, "none" while there is none
    loaded,     \* names whose file has been read
    tokenized,  \* names whose text went through get_words
    analyzed    \* names whose words went through analyze_text

vars == <<pc, call, folder, file1, file2, top_n, queue, filename, text, words,
          cleaned, res, results, cmp, error, loaded, tokenized, analyzed>>

Absent == [kind |-> "absent"]
NoRes == [raised |-> "unset"]
NoCmp == [text |-> <<>>, words |-> <<>>, res |-> <<>>]

(* ------------------------------ the inputs ----------------------------- *)

\* о н ё О a 1 _ space comma
Alphabet == {1086, 1085, 1105, 1054, 97, 49, 95, 32, 44}

\* "ёж ёлка еж Ёж оо ооо нон _ a_b abcd_ef 1111 он,оо"
SampleText ==
    <<1105, 1078, 32, 1105, 1083, 1082, 1072, 32, 1077, 1078, 32, 1025, 1078,
    32, 1086, 1086, 32, 1086, 1086, 1086, 32, 1085, 1086, 1085, 32, 95, 32, 97,
    95, 98, 32, 97, 98, 99, 100, 95, 101, 102, 32, 49, 49, 49, 49, 32, 1086,
    1085, 44, 1086, 1086>>

CharTexts == UNION {[1..n -> Alphabet] : n \in 0..MaxTextLen} \cup {SampleText}

\* "кот", "пес", "мышь"
Kot == <<1082, 1086, 1090>>
Pes == <<1087, 1077, 1089>>
Mysh == <<1084, 1099, 1096, 1100>>
Vocabulary == {Kot, Pes, Mysh}

\* the words of ws separated by single spaces
RECURSIVE JoinFrom(_, _)
JoinFrom(ws, i) ==
    IF i > Len(ws) THEN <<>>
    ELSE IF i = Len(ws) THEN ws[i]
    ELSE ws[i] \o <<32>> \o JoinFrom(ws, i + 1)

Join(ws) == JoinFrom(ws, 1)

\* "кот кот пес кот мышь пес"
ExampleText == Join(<<Kot, Kot, Pes, Kot, Mysh, Pes>>)

WordTexts ==
    {Join(ws) : ws \in UNION {[1..n -> Vocabulary] : n \in 0..MaxWords}} \cup {ExampleText}

TopNs == (0..MaxTopN) \cup {10}

FileNames == {"Valchuk_LV.txt", "text.txt"}

(* ------------------------- one text through the chain ------------------ *)

Idle ==
    /\ call = "pipeline"
    /\ folder = <<>>
    /\ file1 = ""
    /\ file2 = ""
    /\ queue = <<>>
    /\ words = <<>>
    /\ cleaned = <<>>
    /\ res = NoRes
    /\ results = <<>>
    /\ cmp = NoCmp
    /\ error = "none"
    /\ loaded = {}
    /\ tokenized = {}
    /\ analyzed = {}

InitWords ==
    /\ pc = "get_words"
    /\ text \in CharTexts
    /\ filename \in FileNames
    /\ top_n = 200
    /\ Idle

InitZipf ==
    /\ pc = "get_words"
    /\ text \in WordTexts
    /\ filename = "text.txt"
    /\ top_n \in TopNs
    /\ Idle

\* words = get_words(text, filename)
GetWordsCall ==
    /\ call = "pipeline"
    /\ pc = "get_words"
    /\ words' = Candidates(text)
    /\ cleaned' = get_words(text, filename)
    /\ tokenized' = tokenized \cup {filename}
    /\ pc' = "analyze_text"
    /\ UNCHANGED <<call, folder, file1, file2, top_n, queue, filename, text, res,
                   results, cmp, error, loaded, analyzed>>

\* res = analyze_text(words, top_n)
AnalyzeTextCall ==
    /\ call = "pipeline"
    /\ pc = "analyze_text"
    /\ res' = analyze_text(cleaned, top_n)
    /\ analyzed' = analyzed \cup {filename}
    /\ error' = IF res'.raised = "none" THEN "none" ELSE res'.raised
    /\ pc' = IF res'.raised = "none" THEN "done" ELSE "raised"
    /\ UNCHANGED <<call, folder, file1, file2, top_n, queue, filename, text, words,
                   cleaned, results, cmp, loaded, tokenized>>

NextWords == GetWordsCall

SpecWords == InitWords /\ [][NextWords]_vars

NextZipf == GetWordsCall \/ AnalyzeTextCall

SpecZipf == InitZipf /\ [][NextZipf]_vars

(* ------------------------------ the files ------------------------------ *)

\* file names in the order sorted() gives them (code-point order)
SortedNames == <<"Fedorov_MV.txt", "Valchuk_LV.txt", "kolesnikova_ds.txt", "text.txt">>

Names == {SortedNames[i] : i \in 1..MaxFiles}

\* a file: whether its bytes decode as UTF-8, whether they decode as cp1251,
\* and the text the first successful decoding gives
\* "кот кот пес кот мышь пес" in UTF-8
DocExample == [kind |-> "file", utf8 |-> TRUE, cp1251 |-> TRUE, text |-> ExampleText]
\* "и в" in UTF-8: every word is a stop word
DocStop == [kind |-> "file", utf8 |-> TRUE, cp1251 |-> TRUE, text |-> <<1080, 32, 1074>>]
\* "кот пес" in cp1251: not valid UTF-8
DocCp == [kind |-> "file", utf8 |-> FALSE, cp1251 |-> TRUE, text |-> Join(<<Kot, Pes>>)]
\* bytes that are neither valid UTF-8 nor valid cp1251 (a 0x98 byte)
DocBin == [kind |-> "file", utf8 |-> FALSE, cp1251 |-> FALSE, text |-> <<>>]

Docs == {DocExample, DocStop, DocCp, DocBin}

(* --------------------------- read_text_safely -------------------------- *)

Encodings == <<"utf-8", "cp1251", "windows-1251">>

\* path.read_text(encoding=enc) succeeds; windows-1251 is an alias of cp1251
Decodes(file, enc) == IF enc = "utf-8" THEN file.utf8 ELSE file.cp1251

\* the for loop over the encodings, then the last read_text(encoding="utf-8")
RECURSIVE TryFrom(_, _)
TryFrom(file, i) ==
    IF i > Len(Encodings)
    THEN IF Decodes(file, "utf-8")
         THEN [raised |-> "none", text |-> file.text]
         ELSE [raised |-> "UnicodeDecodeError", text |-> <<>>]
    ELSE IF Decodes(file, Encodings[i])
         THEN [raised |-> "none", text |-> file.text]
         ELSE TryFrom(file, i + 1)

\* faulty variant of the reader: a missing file is read as an empty text
read_text_safely_Lenient(file) ==
    IF file = Absent
    THEN [raised |-> "none", text |-> <<>>]
    ELSE TryFrom(file, 1)

\* a missing file: read_text raises FileNotFoundError, which the loop does not catch
read_text_safely(file) ==
    IF file = Absent
    THEN [raised |-> "FileNotFoundError", text |-> <<>>]
    ELSE TryFrom(file, 1)

(* ----------------------------- analyze_corpus -------------------------- *)

\* sorted(folder_path.glob("*.txt"))
SortedGlob(f) == SelectSeq(SubSeq(SortedNames, 1, MaxFiles), LAMBDA n : f[n] # Absent)

Init ==
    /\ pc = "start"
    /\ call \in {"analyze_corpus", "compare_two_files"}
    /\ folder \in [Names -> Docs \cup {Absent}]
    /\ IF call = "compare_two_files"
       THEN file1 \in Names /\ file2 \in Names
       ELSE file1 = "" /\ file2 = ""
    /\ top_n = 200
    /\ queue = <<>>
    /\ filename = ""
    /\ text = <<>>
    /\ words = <<>>
    /\ cleaned = <<>>
    /\ res = NoRes
    /\ results = <<>>
    /\ cmp = NoCmp
    /\ error = "none"
    /\ loaded = {}
    /\ tokenized = {}
    /\ analyzed = {}

\* folder_path = Path(folder); results = {}; the iterable of the for loop
CorpusStart ==
    /\ call = "analyze_corpus"
    /\ pc = "start"
    /\ queue' = SortedGlob(folder)
    /\ results' = <<>>
    /\ pc' = "for"
    /\ UNCHANGED <<call, folder, file1, file2, top_n, filename, text, words, cleaned,
                   res, cmp, error, loaded, tokenized, analyzed>>

\* for path in ...: the next path
CorpusFor ==
    /\ call = "analyze_corpus"
    /\ pc = "for"
    /\ queue # <<>>
    /\ filename' = Head(queue)
    /\ queue' = Tail(queue)
    /\ pc' = "read"
    /\ UNCHANGED <<call, folder, file1, file2, top_n, text, words, cleaned, res,
                   results, cmp, error, loaded, tokenized, analyzed>>

\* text = read_text_safely(path)
CorpusRead ==
    /\ call = "analyze_corpus"
    /\ pc = "read"
    /\ LET r == read_text_safely(folder[filename])
       IN  IF r.raised = "none"
           THEN /\ text' = r.text
                /\ loaded' = loaded \cup {filename}
                /\ pc' = "get_words"
                /\ error' = error
           ELSE /\ error' = r.raised
                /\ pc' = "raised"
                /\ UNCHANGED <<text, loaded>>
    /\ UNCHANGED <<call, folder, file1, file2, top_n, queue, filename, words, cleaned,
                   res, results, cmp, tokenized, analyzed>>

\* words = get_words(text, filename=path.name)
CorpusGetWords ==
    /\ call = "analyze_corpus"
    /\ pc = "get_words"
    /\ words' = Candidates(text)
    /\ cleaned' = get_words(text, filename)
    /\ tokenized' = tokenized \cup {filename}
    /\ pc' = "analyze_text"
    /\ UNCHANGED <<call, folder, file1, file2, top_n, queue, filename, text, res,
                   results, cmp, error, loaded, analyzed>>

\* res = analyze_text(words, top_n=top_n)
CorpusAnalyze ==
    /\ call = "analyze_corpus"
    /\ pc = "analyze_text"
    /\ LET r == analyze_text(cleaned, top_n)
       IN  IF r.raised = "none"
           THEN /\ res' = r
                /\ analyzed' = analyzed \cup {filename}
                /\ pc' = "store"
                /\ error' = error
           ELSE /\ error' = r.raised
                /\ pc' = "raised"
                /\ UNCHANGED <<res, analyzed>>
    /\ UNCHANGED <<call, folder, file1, file2, top_n, queue, filename, text, words,
                   cleaned, results, cmp, loaded, tokenized>>

\* results[path.name] = res, and the printed summary
CorpusStore ==
    /\ call = "analyze_corpus"
    /\ pc = "store"
    /\ results' = [n \in DOMAIN results \cup {filename} |->
                      IF n = filename THEN res ELSE results[n]]
    /\ pc' = "for"
    /\ UNCHANGED <<call, folder, file1, file2, top_n, queue, filename, text, words,
                   cleaned, res, cmp, error, loaded, tokenized, analyzed>>

\* return results
CorpusReturn ==
    /\ call = "analyze_corpus"
    /\ pc = "for"
    /\ queue = <<>>
    /\ pc' = "returned"
    /\ UNCHANGED <<call, folder, file1, file2, top_n, queue, filename, text, words,
                   cleaned, res, results, cmp, error, loaded, tokenized, analyzed>>

(* ---------------------------- compare_two_files ------------------------ *)

File(k) == IF k = 1 THEN file1 ELSE file2

\* the statement after each of the six assignments, in program order
AfterRead(k) == IF k = 1 THEN "cmp_read2" ELSE "cmp_words1"
AfterWords(k) == IF k = 1 THEN "cmp_words2" ELSE "cmp_analyze1"
AfterAnalyze(k) == IF k = 1 THEN "cmp_analyze2" ELSE "cmp_report"

Bind(f, k, v) == [i \in DOMAIN f \cup {k} |-> IF i = k THEN v ELSE f[i]]

\* folder_path = Path(folder)
CompareStart ==
    /\ call = "compare_two_files"
    /\ pc = "start"
    /\ pc' = "cmp_read1"
    /\ UNCHANGED <<call, folder, file1, file2, top_n, queue, filename, text, words,
                   cleaned, res, results, cmp, error, loaded, tokenized, analyzed>>

\* text1 = read_text_safely(folder_path / file1), and the same for text2
CmpRead(k) ==
    /\ call = "compare_two_files"
    /\ pc = IF k = 1 THEN "cmp_read1" ELSE "cmp_read2"
    /\ LET r == read_text_safely(folder[File(k)])
       IN  IF r.raised = "none"
           THEN /\ cmp' = [cmp EXCEPT !.text = Bind(cmp.text, k, r.text)]
                /\ loaded' = loaded \cup {File(k)}
                /\ pc' = AfterRead(k)
                /\ error' = error
           ELSE /\ error' = r.raised
                /\ pc' = "raised"
                /\ UNCHANGED <<cmp, loaded>>
    /\ UNCHANGED <<call, folder, file1, file2, top_n, queue, filename, text, words,
                   cleaned, res, results, tokenized, analyzed>>

\* words1 = get_words(text1, filename=file1), and the same for words2
CmpGetWords(k) ==
    /\ call = "compare_two_files"
    /\ pc = IF k = 1 THEN "cmp_words1" ELSE "cmp_words2"
    /\ cmp' = [cmp EXCEPT !.words = Bind(cmp.words, k, get_words(cmp.text[k], File(k)))]
    /\ tokenized' = tokenized \cup {File(k)}
    /\ pc' = AfterWords(k)
    /\ UNCHANGED <<call, folder, file1, file2, top_n, queue, filename, text, words,
                   cleaned, res, results, error, loaded, analyzed>>

\* res1 = analyze_text(words1, top_n=top_n), and the same for res2
CmpAnalyze(k) ==
    /\ call = "compare_two_files"
    /\ pc = IF k = 1 THEN "cmp_analyze1" ELSE "cmp_analyze2"
    /\ LET r == analyze_text(cmp.words[k], top_n)
       IN  IF r.raised = "none"
           THEN /\ cmp' = [cmp EXCEPT !.res = Bind(cmp.res, k, r)]
                /\ analyzed' = analyzed \cup {File(k)}
                /\ pc' = AfterAnalyze(k)
                /\ error' = error
           ELSE /\ error' = r.raised
                /\ pc' = "raised"
                /\ UNCHANGED <<cmp, analyzed>>
    /\ UNCHANGED <<call, folder, file1, file2, top_n, queue, filename, text, words,
                   cleaned, res, results, loaded, tokenized>>

\* the printed comparison and the two plots
CmpReport ==
    /\ call = "compare_two_files"
    /\ pc = "cmp_report"
    /\ pc' = "returned"
    /\ UNCHANGED <<call, folder, file1, file2, top_n, queue, filename, text, words,
                   cleaned, res, results, cmp, error, loaded, tokenized, analyzed>>

Next ==
    \/ CorpusStart
    \/ CorpusFor
    \/ CorpusRead
    \/ CorpusGetWords
    \/ CorpusAnalyze
    \/ CorpusStore
    \/ CorpusReturn
    \/ CompareStart
    \/ \E k \in 1..2 : CmpRead(k)
    \/ \E k \in 1..2 : CmpGetWords(k)
    \/ \E k \in 1..2 : CmpAnalyze(k)
    \/ CmpReport

Spec == Init /\ [][Next]_vars

(* ============================== properties ============================= *)

Range(s) == {s[i] : i \in 1..Len(s)}

Min(a, b) == IF a < b THEN a ELSE b

\* a letter or a digit (not the underscore)
IsAlnum(c) ==
    \/ c >= 48 /\ c <= 57
    \/ c >= 65 /\ c <= 90
    \/ c >= 97 /\ c <= 122
    \/ c >= 1024 /\ c <= 1119

\* a Cyrillic letter of the basic block, U+0400..U+045F (includes ё, U+0451)
IsCyrillicLetter(c) == c >= 1024 /\ c <= 1119

AllDigits(w) == Len(w) > 0 /\ \A i \in 1..Len(w) : w[i] \in 48..57

EffectiveStop(name) == BASE_STOPWORDS \cup PERSONAL_STOP(name)

\* the conditions (a)-(d) under which a candidate token is to be discarded
MustDiscard(w, name) ==
    \/ w \in EffectiveStop(name)
    \/ AllDigits(w)
    \/ Len(w) = 1
    \/ Len(w) \in 1..3 /\ ~IsCyrillicLetter(w[1])

GetWordsDone == call = "pipeline" /\ pc # "get_words"

\* C4: no token returned by get_words has length 1, none is a 2-3 character
\* token whose first character is not Cyrillic, none consists entirely of
\* digits, and none is in the effective stop-word set of its file.
C4_FilterLaw ==
    GetWordsDone =>
        \A i \in 1..Len(cleaned) :
            /\ Len(cleaned[i]) # 1
            /\ ~(Len(cleaned[i]) \in 2..3 /\ ~IsCyrillicLetter(cleaned[i][1]))
            /\ ~AllDigits(cleaned[i])
            /\ cleaned[i] \notin EffectiveStop(filename)

\* the sample text in a file without personal stop words: what is kept is
\* "ёлка", "еж", "оо", "ооо", "нон", "abcd_ef", "оо"
C4_Witness ==
    /\ GetWordsDone
    /\ text = SampleText
    /\ filename = "text.txt"
    /\ cleaned = << <<1105, 1083, 1082, 1072>>, <<1077, 1078>>, <<1086, 1086>>, <<1086, 1086,
                  1086>>, <<1085, 1086, 1085>>, <<97, 98, 99, 100, 95, 101, 102>>, <<1086,
                  1086>> >>

\* C8: a candidate token is discarded only if one of the conditions (a)-(d)
\* holds; in particular every 2-3 character candidate that starts with a
\* Cyrillic letter (ё included), is no stop word and is not all digits is kept.
C8_OnlyListedDiscards ==
    GetWordsDone =>
        \A i \in 1..Len(words) :
            ~MustDiscard(words[i], filename) => words[i] \in Range(cleaned)

\* the maximal runs of letters and digits of s, left to right
RunStarts(s) == {i \in 1..Len(s) : IsAlnum(s[i]) /\ (i = 1 \/ ~IsAlnum(s[i - 1]))}

RunEnd(s, i) ==
    CHOOSE j \in i..Len(s) :
        /\ \A k \in i..j : IsAlnum(s[k])
        /\ j = Len(s) \/ ~IsAlnum(s[j + 1])

AlnumRuns(s) ==
    LET st == RunStarts(s)
        nth(k) == CHOOSE i \in st : Cardinality({j \in st : j < i}) = k - 1
    IN  [k \in 1..Cardinality(st) |-> SubSeq(s, nth(k), RunEnd(s, nth(k)))]

\* C9: the candidate tokens are exactly the maximal runs of alphanumeric
\* characters of the lowercased text; every other character, the underscore
\* included, separates, so no candidate contains a non-alphanumeric character.
C9_AlnumRuns ==
    GetWordsDone =>
        /\ \A i \in 1..Len(words) : \A k \in 1..Len(words[i]) : IsAlnum(words[i][k])
        /\ words = AlnumRuns(lower(text))

AnalyzeDone == call = "pipeline" /\ pc \in {"done", "raised"}

\* C2: for an empty token sequence total and distinct are 0 and analyze_text
\* ends in an explicit "insufficient data" error, never in a raw division by
\* zero and never with a result record.
C2_InsufficientData ==
    (AnalyzeDone /\ cleaned = <<>>) =>
        /\ res.total_words = 0
        /\ res.unique_words = 0
        /\ pc = "raised"
        /\ error # "ZeroDivisionError"

Count(ws, w) == Cardinality({i \in 1..Len(ws) : ws[i] = w})

FirstIndex(ws, w) == CHOOSE i \in 1..Len(ws) : ws[i] = w /\ \A j \in 1..(i - 1) : ws[j] # w

\* C5: for a non-empty token sequence the ranked list carries the ranks
\* 1..n, counts do not increase with rank, rank 1 has the maximum count, and
\* tokens of equal count stand in the order of their first occurrence.
C5_Ranking ==
    (AnalyzeDone /\ cleaned # <<>>) =>
        /\ pc = "done"
        /\ LET it == res.sorted_items
               n  == Len(it)
           IN  /\ n >= 1
               /\ res.ranks = [r \in 1..n |-> r]
               /\ \A r \in 1..n : it[r][2] = Count(cleaned, it[r][1])
               /\ \A w \in Range(cleaned) : Count(cleaned, w) <= it[1][2]
               /\ \A r \in 1..n : \A s \in (r + 1)..n :
                      /\ it[r][2] >= it[s][2]
                      /\ it[r][2] = it[s][2] =>
                             FirstIndex(cleaned, it[r][1]) < FirstIndex(cleaned, it[s][1])

\* "пес мышь кот мышь": the tie of пес and кот is kept in first-seen order,
\* which is not the alphabetical one
C5_Witness ==
    /\ pc = "done"
    /\ res.sorted_items = << <<Mysh, 2>>, <<Pes, 1>>, <<Kot, 1>> >>

RECURSIVE RankWeighted(_, _)
\* the integer sum of count_r * r over the ranked list from rank i on
RankWeighted(it, i) == IF i > Len(it) THEN 0 ELSE it[i][2] * i + RankWeighted(it, i + 1)

\* C6: f_r = count_r / total with total the length of the whole filtered
\* sequence, and C_mean is the arithmetic mean of f_r * r over the visible
\* ranks; the text "кот кот пес кот мышь пес" with top_n = 10 gives total 6,
\* the ranked list (1,кот,3), (2,пес,2), (3,мышь,1) and C_mean = 5/9.
C6_MeanEstimator ==
    (call = "pipeline" /\ pc = "done") =>
        LET it == res.sorted_items
            n  == Len(it)
            T  == Len(cleaned)
        IN  /\ res.total_words = T
            /\ \A r \in 1..n : res.freqs_rel[r][1] * T = res.freqs_rel[r][2] * it[r][2]
            /\ res.C_mean[1] * n * T = res.C_mean[2] * RankWeighted(it, 1)
            /\ (text = ExampleText /\ top_n = 10) =>
                   /\ T = 6
                   /\ it = << <<Kot, 3>>, <<Pes, 2>>, <<Mysh, 1>> >>
                   /\ res.ranks = <<1, 2, 3>>
                   /\ res.C_mean = <<5, 9>>

C6_Witness ==
    /\ pc = "done"
    /\ text = ExampleText
    /\ top_n = 10
    /\ res.C_mean = <<5, 9>>

\* x <= y for rationals
RLeq(x, y) ==
    LET l == Lcm(x[2], y[2])
    IN  x[1] * (l \div x[2]) <= y[1] * (l \div y[2])

\* the sum over the visible ranks of (f_r - C / r)^2
SSE(f, C) ==
    sum([r \in 1..Len(f) |-> LET d == RSub(f[r], RDiv(C, <<r, 1>>)) IN RMul(d, d)])

\* half the negated derivative of SSE at C: the sum of (f_r - C / r) / r
Slope(f, C) ==
    sum([r \in 1..Len(f) |-> RDiv(RSub(f[r], RDiv(C, <<r, 1>>)), <<r, 1>>)])

\* the constants C_opt is compared with: a grid over [0, 1] and the two
\* neighbours of C_opt one grid step away
OtherCs(C_opt) ==
    {Rat(k, GridSteps) : k \in 0..GridSteps}
        \cup {RAdd(C_opt, Rat(1, GridSteps)), RSub(C_opt, Rat(1, GridSteps))}

\* C7: C_opt minimises the sum of squared residuals over the visible ranks
\* (no other constant gives a strictly smaller sum, and the derivative
\* vanishes at C_opt), and the theoretical frequency at rank r is C_opt / r.
C7_LeastSquares ==
    (call = "pipeline" /\ pc = "done") =>
        LET f    == res.freqs_rel
            best == SSE(f, res.C_opt)
        IN  /\ \A C \in OtherCs(res.C_opt) : RLeq(best, SSE(f, C))
            /\ Slope(f, res.C_opt) = <<0, 1>>
            /\ Len(res.freqs_theor) = Len(f)
            /\ \A r \in 1..Len(f) : RMul(res.freqs_theor[r], <<r, 1>>) = res.C_opt

\* a window of three ranks whose optimum is not a grid point
C7_Witness ==
    /\ pc = "done"
    /\ Len(res.ranks) = 3
    /\ res.C_opt \notin {Rat(k, GridSteps) : k \in 0..GridSteps}
    /\ \E C \in OtherCs(res.C_opt) : ~RLeq(SSE(res.freqs_rel, C), SSE(res.freqs_rel, res.C_opt))

Distinct(ws) == Cardinality(Range(ws))

FullRanking(ws) == most_common(Counter(ws))

\* C10 as stated: for every top_n >= 0 the visible window is the first
\* min(top_n, D) entries of the full ranking, a top_n above D gives all D
\* ranks with no error, and total_words / unique_words describe the
\* untruncated sequence.
C10_WindowIsMin ==
    AnalyzeDone =>
        LET D == Distinct(cleaned)
        IN  /\ res.sorted_items = SubSeq(FullRanking(cleaned), 1, Min(top_n, D))
            /\ res.total_words = Len(cleaned)
            /\ res.unique_words = D
            /\ (D >= 1 /\ top_n > D) => pc = "done"

\* C10 amended: the window is the first min(top_n, D) entries for top_n >= 1
\* and the whole ranking (all D entries) for top_n = 0; both estimators and
\* the MSE range over exactly that window; a non-empty sequence never gives
\* an error, whatever the cutoff; total_words and unique_words describe the
\* untruncated sequence.
C10_WindowAmended ==
    AnalyzeDone =>
        LET D    == Distinct(cleaned)
            full == FullRanking(cleaned)
        IN  /\ res.sorted_items =
                   IF top_n = 0 THEN full ELSE SubSeq(full, 1, Min(top_n, D))
            /\ res.total_words = Len(cleaned)
            /\ res.unique_words = D
            /\ D >= 1 => pc = "done"
            /\ pc = "done" =>
                   /\ Len(res.ranks) = Len(res.sorted_items)
                   /\ Len(res.freqs_rel) = Len(res.sorted_items)
                   /\ Len(res.freqs_theor) = Len(res.sorted_items)

\* a zero cutoff that keeps all three ranks
C10_Witness ==
    /\ pc = "done"
    /\ top_n = 0
    /\ Distinct(cleaned) = 3
    /\ Len(res.ranks) = 3

Terminal == pc \in {"returned", "raised"}

\* a file of the folder that loads and keeps at least one token
Sound(n) ==
    /\ folder[n] # Absent
    /\ read_text_safely(folder[n]).raised = "none"
    /\ get_words(folder[n].text, n) # <<>>

\* C1: analyze_corpus isolates per-document failures: whatever fails, the run
\* returns, with a result entry for every document that does not fail.
C1_Isolation ==
    (call = "analyze_corpus" /\ Terminal) =>
        \A n \in Names : Sound(n) => (pc = "returned" /\ n \in DOMAIN results)

Processed == loaded \cup tokenized \cup analyzed

\* a file that is present and decodes in one of the encodings tried
Readable(n) == folder[n] # Absent /\ (folder[n].utf8 \/ folder[n].cp1251)

\* C3 as stated: when either name is absent the comparison fails with
\* "not found" and no load, tokenization or analysis step is performed on the
\* present document, whichever position the missing name has.  (Stated for a
\* present document that is readable, so that the only failure is the
\* missing name.)
C3_OtherUntouched ==
    /\ call = "compare_two_files"
    /\ \/ folder[file1] = Absent /\ Readable(file2)
       \/ folder[file2] = Absent /\ Readable(file1)
    => /\ Processed = {}
       /\ Terminal => (pc = "raised" /\ error = "FileNotFoundError")

\* C3 amended: with file1 absent the comparison fails with "not found" before
\* any step on file2.  With file2 absent and file1 present, file1 is read
\* first: if it decodes it is loaded, the comparison then fails with "not
\* found", and no tokenization or analysis step is performed on it; if it
\* does not decode the comparison fails with the decoding error instead.
C3_OtherUntouchedAmended ==
    call = "compare_two_files" =>
        /\ folder[file1] = Absent =>
               /\ Processed = {}
               /\ Terminal => (pc = "raised" /\ error = "FileNotFoundError")
        /\ (folder[file1] # Absent /\ folder[file2] = Absent) =>
               /\ tokenized = {}
               /\ analyzed = {}
               /\ loaded \subseteq {file1}
               /\ Terminal =>
                      /\ pc = "raised"
                      /\ IF Readable(file1)
                         THEN error = "FileNotFoundError" /\ loaded = {file1}
                         ELSE error = "UnicodeDecodeError" /\ loaded = {}

\* file2 is missing and file1 has been loaded when the comparison fails
C3_Witness ==
    /\ call = "compare_two_files"
    /\ pc = "raised"
    /\ error = "FileNotFoundError"
    /\ folder[file1] # Absent
    /\ folder[file2] = Absent
    /\ loaded = {file1}
====
